---- MODULE Spec2Model ----
(***************************************************************************)
(* firebase-oauth-lite: the Auth class of src/index.js as a state machine. *)
(*                                                                         *)
(* One browser tab is modelled: the page's Auth instance (its fields, its  *)
(* listeners, the async calls that are suspended at an await), the two     *)
(* storages, the location, the requests in flight and the part of the      *)
(* Identity Service the requests depend on (issued tokens, sessions).      *)
(* JavaScript runs one task at a time: a call runs up to its first await   *)
(* in the step that makes it, a continuation whose promise is already      *)
(* settled runs in a later microtask (Resume), and a response is taken     *)
(* only when no microtask is pending.                                      *)
(***************************************************************************)
EXTENDS Integers, Sequences, FiniteSets, TLC

(* ------------------------------ bounds -------------------------------- *)
\* async calls made on one page (the constructor's fetchUserDetails included)
MaxCalls == 2
\* seconds the clock may advance
MaxTicks == 2
\* registrations the listener list may hold
MaxListeners == 2
\* page loads after the first one
MaxLoads == 1
\* sessions the Identity Service opens (createAuthUri answers it gives)
MaxSessions == 2

(* ------------------------- program constants -------------------------- *)
MsPerSecond == 1000

(* ------------------------------ values -------------------------------- *)
\* JavaScript null where an object is expected
Null == [null |-> TRUE]
\* JavaScript undefined where a string is expected
Undefined == "undefined"
\* JavaScript null where a string is expected
NullString == "null"
\* Storage.getItem of a missing key
AbsentItem == [absent |-> TRUE]
Item(v) == [item |-> v]

Callbacks == {"f", "g"}
\* callbacks that call back into the instance: h calls signOut() when it is handed
\* a Credential, k calls persistUser with its own profile put on the Credential
\* it is handed
ReentrantCallbacks == {"h", "k"}
OwnProfile == "pk"
Contexts == {Undefined, "ctxA", "ctxB"}
\* the arguments of signInWithProvider: the string form 'google.com' is
\* {provider: 'google.com'}, the object form names a context
SignInOptions ==
    { [provider |-> "google.com", context |-> Undefined],
      [provider |-> "github.com", context |-> "ctxA"],
      [provider |-> "github.com", context |-> "ctxB"],
      [provider |-> "unknown.com", context |-> "ctxA"],
      [provider |-> Undefined, context |-> Undefined] }
\* seconds of validity the Identity Service answers with (expires_in)
Durations == {1}
\* the profile the lookup operation answers with
LookupProfile == "p1"
\* the profile of a Credential left in durable storage by an earlier visit
StoredProfile == "p0"

\* constructor argument providers: ['google.com', {name: 'github.com', scope: 'repo'}]
ConfigProviders == << [name |-> "google.com", scope |-> Undefined],
                      [name |-> "github.com", scope |-> "repo"] >>

\* location.href as a sequence of tokens; "code=" is the text code=, "xcode=" a
\* parameter whose name only ends in code
AppUrls == { <<"/app">>,
             <<"/cb", "?", "code=">>,
             <<"/cb", "?", "state=", "&", "code=">>,
             <<"/cb", "?", "xcode=">> }
\* location.href as the string the tokens spell
RECURSIVE Href(_)
Href(u) == IF u = <<>> THEN "" ELSE Head(u) \o Href(Tail(u))
NoNavigation == [origin |-> "none"]
\* a slip: the redirect goes to a fixed URI, not to the one of the response
AuthUri_Fixed(sid) == [origin |-> "idp", session |-> "s1"]

AuthUri(sid) == [origin |-> "idp", session |-> sid]

\* the n-th token and the n-th session id the Identity Service hands out
Token(n) == "t" \o ToString(n)
SessionId(n) == "s" \o ToString(n)

TokenDetails(tok, exp) == [idToken |-> tok, refreshToken |-> tok, expiresIn |-> exp]
Credential(profile, td) == [localId |-> profile, tokenDetails |-> td]

(* --------------------------- pure functions --------------------------- *)
\* JSON.stringify of an object whose values are strings: keys whose value is
\* undefined are left out
JsonStringifyBody(payload) ==
    [k \in {x \in DOMAIN payload : payload[x] # Undefined} |-> payload[k]]

\* destructuring a parsed JSON object: a missing key reads as undefined
Field(obj, key) == IF key \in DOMAIN obj THEN obj[key] ELSE Undefined

\* JSON.stringify(userDetails) / JSON.parse(localStorage.getItem(key));
\* JSON.parse(null) is null
JsonStringify(v) == Item(v)
JsonParse(s) == IF s = AbsentItem THEN Null ELSE s.item

\* sessionStorage.getItem(key): the stored string, or null
GetSessionItem(s) == IF s = AbsentItem THEN NullString ELSE s.item

\* location.href.match(/[&?]code=/)
HasCodeMarker(u) ==
    \E i \in 1..(Len(u) - 1) : u[i] \in {"?", "&"} /\ u[i + 1] = "code="

\* a slip: the pattern /code=/, which any parameter name ending in code matches
NoRedirectPending_AnyCode(u) == ~\E i \in 1..Len(u) : u[i] \in {"code=", "xcode="}

\* the early return of handlePostSignInRedirect
NoRedirectPending(u) == ~HasCodeMarker(u)

\* a slip: the URL is put back as it is
OriginAndPath_Whole(u) == u

\* location.origin + location.pathname: what precedes the query and the fragment
RECURSIVE OriginAndPath(_)
OriginAndPath(u) ==
    IF u = <<>> \/ Head(u) \in {"?", "#"} THEN <<>>
    ELSE <<Head(u)>> \o OriginAndPath(Tail(u))

\* this.providers after the constructor's loop
RECURSIVE ProvidersOf(_)
ProvidersOf(list) ==
    IF list = <<>> THEN <<>>
    ELSE LET rest == ProvidersOf(Tail(list))
             opt == Head(list)
         IN [n \in DOMAIN rest \cup {opt.name} |->
                IF n \in DOMAIN rest THEN rest[n] ELSE opt.scope]

providers == ProvidersOf(ConfigProviders)

\* a slip: the check of the provider mapping left out
ProviderConfigured_Any(p) == TRUE

\* Object.keys(this.providers).includes(provider)
ProviderConfigured(p) == p \in DOMAIN providers

\* getTokenTimeout(duration) at time t
getTokenTimeout(t, duration) == t + duration * MsPerSecond

\* {...this.user, tokenDetails: td}: spreading null gives the empty object
SpreadWithTokens(u, td) ==
    LET base == IF u = Null THEN <<>> ELSE u
    IN [k \in DOMAIN base \cup {"tokenDetails"} |->
            IF k = "tokenDetails" THEN td ELSE base[k]]

HasTokenDetails(u) == u # Null /\ "tokenDetails" \in DOMAIN u


\* users[0] of a lookup response, and delete userDetails.kind
LookupUser(profile) == [kind |-> "identitytoolkit#user", localId |-> profile]
DeleteKind(rec) == [k \in DOMAIN rec \ {"kind"} |-> rec[k]]

\* userDetails.tokenDetails = tokenDetails || this.user.tokenDetails, on the
\* record of the lookup response (u is this.user, not null)
WithTokenDetails(rec, td, u) ==
    IF td # Null THEN [k \in DOMAIN rec \cup {"tokenDetails"} |->
                          IF k = "tokenDetails" THEN td ELSE rec[k]]
    ELSE IF HasTokenDetails(u)
         THEN [k \in DOMAIN rec \cup {"tokenDetails"} |->
                  IF k = "tokenDetails" THEN u.tokenDetails ELSE rec[k]]
         ELSE rec

\* config.redirectURL
redirectURL == "/cb"

(* ------------------------------- state -------------------------------- *)
VARIABLES
    now,                  \* Date.now(), milliseconds
    user,                 \* this.user
    storage,              \* localStorage item Auth:User:<apiKey>:<name>
    sessionStorage,       \* sessionStorage item Auth:SessionId:<apiKey>:<name>
    url,                  \* location.href of the page
    navigateTo,           \* the navigation started by location.href = authUri
    listeners,            \* this.listeners
    handles,              \* callbacks whose unsubscribe handle the application holds
    notified,             \* callback invocations made by the last step, in order
    moments,              \* for each of them: its run and the durable record then
    heard,                \* history: registered callbacks called since they registered
    returned,             \* async functions that settled in the last step, in order
    refreshTokenRequest,  \* this.refreshTokenRequest: the promise and its state
    calls,                \* the async calls of this page
    requests,             \* requests sent and not yet answered
    issued,               \* Identity Service: number of tokens issued
    sessions,             \* Identity Service: context kept for each session id
    passed,               \* history: context passed to the call that got each session id
    signedOut,            \* history: signOut() returned, no sign-in completed since
    loads                 \* page loads after the first

vars == << now, user, storage, sessionStorage, url, navigateTo, listeners, handles,
           notified, moments, heard, returned, refreshTokenRequest, calls, requests, issued, sessions,
           passed, signedOut, loads >>

Calls == 1..MaxCalls

\* an async call made by the application or the constructor: where it is
\* suspended and its locals. rt and expired tell how its refreshToken() went:
\* whether it found the token expired, and whether it has returned or thrown
FreeCall == [kind |-> "none", pc |-> "free", rt |-> "none", expired |-> FALSE,
             td |-> Null, provider |-> Undefined, context |-> Undefined,
             sid |-> Undefined]

\* a settled call: its locals are gone
Done(call) == [FreeCall EXCEPT !.pc = "done", !.rt = call.rt, !.expired = call.expired]

\* an async function settles: fulfilled ("ok") with a value or rejected ("err")
Ret(fn, result) == [fn |-> fn, result |-> result, value |-> Undefined,
                    expired |-> FALSE, sid |-> Undefined, provider |-> Undefined]

UndefinedMarker == [status |-> "undefined"]
PendingMarker(c) == [status |-> "pending", owner |-> c]

HasFree == \E c \in Calls : calls[c].pc = "free"
NextSlot == CHOOSE c \in Calls :
                calls[c].pc = "free" /\ \A d \in Calls : d < c => calls[d].pc # "free"

\* a continuation whose awaited promise is settled: it runs in the next microtask
Ready(c) ==
    \/ calls[c].pc = "afterRefresh"
    \/ calls[c].pc = "awaitRefresh"
         /\ refreshTokenRequest.status \in {"fulfilled", "rejected"}
NoMicrotask == \A c \in Calls : ~Ready(c)

\* the instance while a synchronous method runs: this.user, the durable item, the
\* callback invocations made so far with the run of triggerCallbacks each belongs
\* to and the durable record at that moment, and whether signOut() ran
Instance(u, st) ==
    [user |-> u, storage |-> st, notified |-> <<>>, moments |-> <<>>, runs |-> 0,
     signedOut |-> FALSE]

\* what a callback does with the value it is handed
Reaction(cb, v) ==
    IF cb = "h" /\ v # Null THEN "signOut"
    ELSE IF cb = "k" /\ v # Null /\ Field(v, "localId") # OwnProfile THEN "persistUser"
    ELSE "none"
OwnCredential(v) ==
    [x \in DOMAIN v \cup {"localId"} |-> IF x = "localId" THEN OwnProfile ELSE v[x]]

\* a slip: the value is read once, before the loop
forEachValue_Captured(inst, first) == first

\* the argument of callback(this.user): this.user is read at each call
forEachValue(inst, first) == inst.user

\* this.listeners.forEach(callback => callback(this.user)) from index i on, as run
\* number run; first is this.user when the run began
RECURSIVE forEach(_, _, _, _, _)

\* triggerCallbacks()
triggerCallbacks(ls, inst) ==
    forEach(ls, 1, inst.runs + 1, inst.user, [inst EXCEPT !.runs = @ + 1])

\* a slip: the durable record is not written
persistUser_MemoryOnly(ls, inst, userDetails) ==
    triggerCallbacks(ls, [inst EXCEPT !.user = userDetails])

\* persistUser(userDetails)
persistUser(ls, inst, userDetails) ==
    triggerCallbacks(ls, [inst EXCEPT !.storage = JsonStringify(userDetails),
                                      !.user = userDetails])

\* signOut()
signOut(ls, inst) ==
    triggerCallbacks(ls, [inst EXCEPT !.storage = AbsentItem, !.user = Null,
                                      !.signedOut = TRUE])

forEach(ls, i, run, first, inst) ==
    IF i > Len(ls) THEN inst
    ELSE LET v == forEachValue(inst, first)
             called == [inst EXCEPT
                          !.notified = Append(@, [callback |-> ls[i], value |-> v]),
                          !.moments = Append(@, [run |-> run,
                                                 persisted |-> JsonParse(inst.storage)])]
             after == IF Reaction(ls[i], v) = "signOut" THEN signOut(ls, called)
                      ELSE IF Reaction(ls[i], v) = "persistUser"
                           THEN persistUser(ls, called, OwnCredential(v))
                           ELSE called
         IN forEach(ls, i + 1, run, first, after)

\* a slip: this.triggerCallbacks() in place of callback(null)
addListenerCalls_All(cb, u, ls) ==
    IF u = Null THEN triggerCallbacks(Append(ls, cb), Instance(Null, AbsentItem)).notified
    ELSE <<>>

\* the calls addListener makes: if (!this.user) callback(null)
addListenerCalls(cb, u, ls) ==
    IF u = Null THEN << [callback |-> cb, value |-> Null] >> ELSE <<>>

\* request(method, payload): the fetch that is sent
request(c, method, payload) ==
    [owner |-> c, method |-> method, body |-> JsonStringifyBody(payload)]

(* ------------------------ refreshToken, lines 55-68 -------------------- *)
\* the first guard of refreshToken does not return
NeedsRefresh(u, t) == HasTokenDetails(u) /\ ~(t < u.tokenDetails.expiresIn)
\* if (this.refreshTokenRequest)
InFlight(m) == m.status # "undefined"
\* what the synchronous part of refreshToken does
RefreshStep(u, t, m) ==
    IF ~NeedsRefresh(u, t) THEN "return"
    ELSE IF InFlight(m) THEN "join" ELSE "start"

TokenPayload(u) ==
    [grant_type |-> "refresh_token", refresh_token |-> u.tokenDetails.refreshToken]
RequestsAfterRefresh(c, step, u, reqs) ==
    IF step = "start" THEN reqs \cup {request(c, "token", TokenPayload(u))} ELSE reqs
MarkerAfterRefresh(c, step, m) == IF step = "start" THEN PendingMarker(c) ELSE m

\* refreshToken() settles in its synchronous part unless it joins the request in
\* flight: the call that starts the request does not await it
RefreshReturns(step) ==
    IF step = "join" THEN <<>>
    ELSE << [Ret("refreshToken", "ok") EXCEPT !.expired = (step # "return")] >>

\* the call record of an async refreshToken() after its synchronous part
RefreshTokenCall(step) ==
    [FreeCall EXCEPT !.kind = "refreshToken",
                     !.expired = (step # "return"),
                     !.pc = IF step = "join" THEN "awaitRefresh" ELSE "done",
                     !.rt = IF step = "join" THEN "waiting" ELSE "returned"]

\* a call that runs fetchUserDetails(td), after await this.refreshToken() was reached
FetchUserDetailsCall(base, td, step) ==
    [base EXCEPT !.td = td,
                 !.expired = (step # "return"),
                 !.pc = IF step = "join" THEN "awaitRefresh" ELSE "afterRefresh",
                 !.rt = IF step = "join" THEN "waiting" ELSE "returned"]

\* fetchUserDetails settles, and with it the handlePostSignInRedirect that awaits it
FetchSettles(call, result) ==
    IF call.kind = "handlePostSignInRedirect"
    THEN << Ret("fetchUserDetails", result),
            [Ret("handlePostSignInRedirect", result) EXCEPT
                 !.sid = call.sid,
                 !.value = IF result = "ok" THEN call.context ELSE Undefined] >>
    ELSE << Ret("fetchUserDetails", result) >>

(* ---------------------------- construction ---------------------------- *)
\* the instance the constructor builds from durable storage st at time t
Constructed(st, t) ==
    LET u == JsonParse(st)
        step == RefreshStep(u, t, UndefinedMarker)
    IN [user |-> u,
        calls |-> IF u # Null
                  THEN [c \in Calls |->
                          IF c = 1
                          THEN FetchUserDetailsCall(
                                   [FreeCall EXCEPT !.kind = "fetchUserDetails"], Null, step)
                          ELSE FreeCall]
                  ELSE [c \in Calls |-> FreeCall],
        requests |-> IF u # Null THEN RequestsAfterRefresh(1, step, u, {}) ELSE {},
        marker |-> IF u # Null THEN MarkerAfterRefresh(1, step, UndefinedMarker)
                   ELSE UndefinedMarker,
        returned |-> IF u # Null THEN RefreshReturns(step) ELSE <<>>]

\* what an earlier visit may have left in durable storage: nothing, a Credential
\* whose token is expired at time 0, or one that expires after the first second
InitialStorage ==
    { AbsentItem,
      JsonStringify(Credential(StoredProfile, TokenDetails(Token(0), 0))),
      JsonStringify(Credential(StoredProfile, TokenDetails(Token(0), MsPerSecond))) }

Init ==
    /\ now = 0
    /\ storage \in InitialStorage
    /\ url \in AppUrls
    /\ sessionStorage = AbsentItem
    /\ navigateTo = NoNavigation
    /\ listeners = <<>>
    /\ handles = {}
    /\ notified = <<>>
    /\ moments = <<>>
    /\ heard = {}
    /\ user = Constructed(storage, now).user
    /\ calls = Constructed(storage, now).calls
    /\ requests = Constructed(storage, now).requests
    /\ refreshTokenRequest = Constructed(storage, now).marker
    /\ returned = Constructed(storage, now).returned
    /\ issued = 0
    /\ sessions = <<>>
    /\ passed = <<>>
    /\ signedOut = FALSE
    /\ loads = 0

\* the registered callbacks that have been called, after a step that made the
\* invocations n and left the listeners ls
HeardAfter(h, n, ls) ==
    (h \cup {n[i].callback : i \in DOMAIN n}) \cap {ls[i] : i \in DOMAIN ls}

(* ------------------------------ actions ------------------------------- *)
\* time passes
Tick ==
    /\ now < MaxTicks * MsPerSecond
    /\ now' = now + MsPerSecond
    /\ notified' = <<>>
    /\ moments' = <<>>
    /\ returned' = <<>>
    /\ UNCHANGED << user, storage, sessionStorage, url, navigateTo, listeners, handles,
                    refreshTokenRequest, calls, requests, issued, sessions, passed,
                    signedOut, loads >>
    /\ heard' = HeardAfter(heard, notified', listeners')

\* addListener(callback)
AddListener(cb) ==
    /\ Len(listeners) < MaxListeners
    /\ listeners' = Append(listeners, cb)
    /\ handles' = handles \cup {cb}
    /\ notified' = addListenerCalls(cb, user, listeners)
    /\ moments' = [i \in DOMAIN notified' |->
                      [run |-> 0, persisted |-> JsonParse(storage)]]
    /\ returned' = <<>>
    /\ UNCHANGED << now, user, storage, sessionStorage, url, navigateTo,
                    refreshTokenRequest, calls, requests, issued, sessions, passed,
                    signedOut, loads >>
    /\ heard' = HeardAfter(heard \ {cb}, notified', listeners')

\* the function addListener(callback) returned is called
Unsubscribe(cb) ==
    /\ cb \in handles
    /\ listeners' = SelectSeq(listeners, LAMBDA fn : fn # cb)
    /\ notified' = <<>>
    /\ moments' = <<>>
    /\ returned' = <<>>
    /\ UNCHANGED << now, user, storage, sessionStorage, url, navigateTo, handles,
                    refreshTokenRequest, calls, requests, issued, sessions, passed,
                    signedOut, loads >>
    /\ heard' = HeardAfter(heard, notified', listeners')

\* signOut()
SignOut ==
    /\ LET inst == signOut(listeners, Instance(user, storage))
       IN /\ storage' = inst.storage
          /\ user' = inst.user
          /\ notified' = inst.notified
          /\ moments' = inst.moments
          /\ signedOut' = inst.signedOut
    /\ returned' = <<>>
    /\ UNCHANGED << now, sessionStorage, url, navigateTo, listeners, handles,
                    refreshTokenRequest, calls, requests, issued, sessions, passed,
                    loads >>
    /\ heard' = HeardAfter(heard, notified', listeners')

\* refreshToken() called by the application
CallRefreshToken ==
    /\ HasFree
    /\ LET c == NextSlot
           step == RefreshStep(user, now, refreshTokenRequest)
       IN /\ calls' = [calls EXCEPT ![c] = RefreshTokenCall(step)]
          /\ requests' = RequestsAfterRefresh(c, step, user, requests)
          /\ refreshTokenRequest' = MarkerAfterRefresh(c, step, refreshTokenRequest)
          /\ returned' = RefreshReturns(step)
    /\ notified' = <<>>
    /\ moments' = <<>>
    /\ UNCHANGED << now, user, storage, sessionStorage, url, navigateTo, listeners,
                    handles, issued, sessions, passed, signedOut, loads >>
    /\ heard' = HeardAfter(heard, notified', listeners')

\* a slip: context left out of the payload
AuthUriPayload_NoContext(p, ctx) ==
    [providerId |-> p, authFlowType |-> "CODE_FLOW", continueUri |-> redirectURL,
     oauthScope |-> Field(providers, p)]

\* the payload of the createAuthUri request
AuthUriPayload(p, ctx) ==
    [providerId |-> p, authFlowType |-> "CODE_FLOW", continueUri |-> redirectURL,
     oauthScope |-> Field(providers, p), context |-> ctx]

\* the two throws of signInWithProvider that precede the request
SignInRejects(p) == p = Undefined \/ ~ProviderConfigured(p)

\* signInWithProvider(options)
SignInWithProvider(options) ==
    /\ HasFree
    /\ LET c == NextSlot
           p == options.provider
           ctx == options.context
           call == [FreeCall EXCEPT !.kind = "signInWithProvider",
                                    !.provider = p, !.context = ctx]
       IN IF SignInRejects(p)
          THEN /\ calls' = [calls EXCEPT ![c] = Done(call)]
               /\ requests' = requests
               /\ returned' = << [Ret("signInWithProvider", "err") EXCEPT !.provider = p] >>
          ELSE /\ calls' = [calls EXCEPT ![c] = [call EXCEPT !.pc = "awaitAuthUri"]]
               /\ requests' = requests \cup
                     {request(c, "createAuthUri", AuthUriPayload(p, ctx))}
               /\ returned' = <<>>
    /\ notified' = <<>>
    /\ moments' = <<>>
    /\ UNCHANGED << now, user, storage, sessionStorage, url, navigateTo, listeners,
                    handles, refreshTokenRequest, issued, sessions, passed, signedOut,
                    loads >>
    /\ heard' = HeardAfter(heard, notified', listeners')

\* the payload of the signInWithIdp request
ExchangePayload(sid, u) ==
    [sessionId |-> sid, requestUri |-> Href(u), returnSecureToken |-> "true"]

\* handlePostSignInRedirect()
HandlePostSignInRedirect ==
    /\ HasFree
    /\ LET c == NextSlot
           call == [FreeCall EXCEPT !.kind = "handlePostSignInRedirect"]
           sid == GetSessionItem(sessionStorage)
       IN IF NoRedirectPending(url)
          THEN /\ calls' = [calls EXCEPT ![c] = Done(call)]
               /\ requests' = requests
               /\ returned' = << Ret("handlePostSignInRedirect", "ok") >>
          ELSE /\ calls' = [calls EXCEPT ![c] =
                     [call EXCEPT !.pc = "awaitExchange", !.sid = sid]]
               /\ requests' = requests \cup
                     {request(c, "signInWithIdp", ExchangePayload(sid, url))}
               /\ returned' = <<>>
    /\ notified' = <<>>
    /\ moments' = <<>>
    /\ UNCHANGED << now, user, storage, sessionStorage, url, navigateTo, listeners,
                    handles, refreshTokenRequest, issued, sessions, passed, signedOut,
                    loads >>
    /\ heard' = HeardAfter(heard, notified', listeners')

\* a microtask: a call whose awaited promise is settled continues
Resume(c) ==
    /\ Ready(c)
    /\ IF calls[c].pc = "awaitRefresh"
       THEN \* return await this.refreshTokenRequest
            /\ requests' = requests
            /\ IF refreshTokenRequest.status = "rejected"
               THEN /\ calls' = [calls EXCEPT ![c] = Done([@ EXCEPT !.rt = "threw"])]
                    /\ returned' = << [Ret("refreshToken", "err") EXCEPT !.expired = TRUE] >>
                                   \o (IF calls[c].kind = "refreshToken" THEN <<>>
                                       ELSE FetchSettles(calls[c], "err"))
               ELSE /\ calls' = [calls EXCEPT ![c] =
                          IF @.kind = "refreshToken"
                          THEN Done([@ EXCEPT !.rt = "returned"])
                          ELSE [@ EXCEPT !.pc = "afterRefresh", !.rt = "returned"]]
                    /\ returned' = << [Ret("refreshToken", "ok") EXCEPT !.expired = TRUE] >>
       ELSE \* fetchUserDetails after await this.refreshToken()
            IF calls[c].td = Null /\ ~HasTokenDetails(user)
            THEN \* TypeError: this.user is null
                 /\ calls' = [calls EXCEPT ![c] = Done(@)]
                 /\ requests' = requests
                 /\ returned' = FetchSettles(calls[c], "err")
            ELSE /\ calls' = [calls EXCEPT ![c].pc = "awaitLookup"]
                 /\ requests' = requests \cup
                       {request(c, "lookup",
                           [idToken |-> IF calls[c].td # Null THEN calls[c].td.idToken
                                        ELSE user.tokenDetails.idToken])}
                 /\ returned' = <<>>
    /\ notified' = <<>>
    /\ moments' = <<>>
    /\ UNCHANGED << now, user, storage, sessionStorage, url, navigateTo, listeners,
                    handles, refreshTokenRequest, issued, sessions, passed, signedOut,
                    loads >>
    /\ heard' = HeardAfter(heard, notified', listeners')

(* ----------------------- Identity Service answers ---------------------- *)
\* the context the service kept for a session id, if it knows the id
KnownSession(sid) == \E i \in 1..Len(sessions) : SessionId(i) = sid
SessionContext(sid) ==
    IF KnownSession(sid)
    THEN sessions[CHOOSE i \in 1..Len(sessions) : SessionId(i) = sid]
    ELSE Undefined

\* the Credential the .then handler of the refresh request persists
RefreshedUser(u, resp, t) ==
    SpreadWithTokens(u, [idToken |-> resp.id_token, refreshToken |-> resp.refresh_token,
                         expiresIn |-> getTokenTimeout(t, resp.expires_in)])

\* the state of the promise this.refreshTokenRequest after request r settled
MarkerSettled(m, r, status) ==
    IF m.status = "pending" /\ m.owner = r.owner THEN [m EXCEPT !.status = status] ELSE m

\* the token endpoint answers a refresh request: the .then handler runs persistUser
RespondToken(r, d) ==
    /\ r \in requests /\ r.method = "token"
    /\ NoMicrotask
    /\ LET resp == [id_token |-> Token(issued + 1), refresh_token |-> Token(issued + 1),
                    expires_in |-> d]
           inst == persistUser(listeners, Instance(user, storage),
                               RefreshedUser(user, resp, now))
       IN /\ storage' = inst.storage
          /\ user' = inst.user
          /\ notified' = inst.notified
          /\ moments' = inst.moments
          /\ signedOut' = (signedOut \/ inst.signedOut)
    /\ returned' = <<>>
    /\ issued' = issued + 1
    /\ refreshTokenRequest' = MarkerSettled(refreshTokenRequest, r, "fulfilled")
    /\ requests' = requests \ {r}
    /\ UNCHANGED << now, sessionStorage, url, navigateTo, listeners, handles, calls,
                    sessions, passed, loads >>
    /\ heard' = HeardAfter(heard, notified', listeners')

\* lookup answers: fetchUserDetails persists the profile with the tokenDetails
RespondLookup(r) ==
    /\ r \in requests /\ r.method = "lookup"
    /\ NoMicrotask
    /\ LET c == r.owner
           userDetails == DeleteKind(LookupUser(LookupProfile))
       IN IF calls[c].td = Null /\ user = Null
          THEN \* TypeError: this.user is null
               /\ returned' = FetchSettles(calls[c], "err")
               /\ notified' = <<>>
               /\ moments' = <<>>
               /\ UNCHANGED << user, storage, url, signedOut >>
          ELSE LET inst == persistUser(listeners, Instance(user, storage),
                                      WithTokenDetails(userDetails, calls[c].td, user))
               IN /\ storage' = inst.storage
                  /\ user' = inst.user
                  /\ notified' = inst.notified
                  /\ moments' = inst.moments
                  /\ returned' = FetchSettles(calls[c], "ok")
                  /\ IF calls[c].kind = "handlePostSignInRedirect"
                     THEN \* history.replaceState(...); return context
                          /\ url' = OriginAndPath(url)
                          /\ signedOut' = FALSE
                     ELSE /\ url' = url
                          /\ signedOut' = (signedOut \/ inst.signedOut)
    /\ calls' = [calls EXCEPT ![r.owner] = Done(@)]
    /\ requests' = requests \ {r}
    /\ UNCHANGED << now, sessionStorage, navigateTo, listeners, handles,
                    refreshTokenRequest, issued, sessions, passed, loads >>
    /\ heard' = HeardAfter(heard, notified', listeners')

\* signInWithIdp answers: handlePostSignInRedirect calls fetchUserDetails(td)
RespondSignInWithIdp(r, d) ==
    /\ r \in requests /\ r.method = "signInWithIdp"
    /\ NoMicrotask
    /\ LET c == r.owner
           resp == JsonStringifyBody(
                       [idToken |-> Token(issued + 1), refreshToken |-> Token(issued + 1),
                        context |-> SessionContext(Field(r.body, "sessionId"))])
           td == [idToken |-> resp.idToken, refreshToken |-> resp.refreshToken,
                  expiresIn |-> getTokenTimeout(now, d)]
           step == RefreshStep(user, now, refreshTokenRequest)
       IN /\ calls' = [calls EXCEPT ![c] =
                 FetchUserDetailsCall([@ EXCEPT !.context = Field(resp, "context")],
                                      td, step)]
          /\ requests' = RequestsAfterRefresh(c, step, user, requests \ {r})
          /\ refreshTokenRequest' = MarkerAfterRefresh(c, step, refreshTokenRequest)
          /\ returned' = RefreshReturns(step)
    /\ issued' = issued + 1
    /\ notified' = <<>>
    /\ moments' = <<>>
    /\ UNCHANGED << now, user, storage, sessionStorage, url, navigateTo, listeners,
                    handles, sessions, passed, signedOut, loads >>
    /\ heard' = HeardAfter(heard, notified', listeners')

\* createAuthUri answers: the session id is stored and the page is redirected
RespondCreateAuthUri(r) ==
    /\ r \in requests /\ r.method = "createAuthUri"
    /\ NoMicrotask
    /\ Len(sessions) < MaxSessions
    /\ LET c == r.owner
           sid == SessionId(Len(sessions) + 1)
       IN /\ sessions' = Append(sessions, Field(r.body, "context"))
          /\ passed' = Append(passed, calls[c].context)
          /\ sessionStorage' = Item(sid)
          /\ navigateTo' = AuthUri(sid)
          /\ calls' = [calls EXCEPT ![c] = Done(@)]
    /\ returned' = << [Ret("signInWithProvider", "ok") EXCEPT
                           !.provider = calls[r.owner].provider] >>
    /\ requests' = requests \ {r}
    /\ notified' = <<>>
    /\ moments' = <<>>
    /\ UNCHANGED << now, user, storage, url, listeners, handles, refreshTokenRequest,
                    issued, signedOut, loads >>
    /\ heard' = HeardAfter(heard, notified', listeners')

\* a slip: the payload of an error response is returned like any other
requestThrows_Never(ok) == FALSE

\* if (!response.ok) throw Error(payload.error.message)
requestThrows(ok) == ~ok

\* the Credential the .then handler of the refresh request persists when it is
\* handed a payload without tokens: id_token and refresh_token are undefined and
\* expiresIn is NaN, which no time is less than (as no time is less than 0)
RefreshedFromError(u) ==
    SpreadWithTokens(u, [idToken |-> Undefined, refreshToken |-> Undefined,
                         expiresIn |-> 0])

\* what settles when request r of call rejects
RequestFails(r, call) ==
    IF r.method = "token" THEN <<>>
    ELSE IF r.method = "lookup" THEN FetchSettles(call, "err")
    ELSE IF r.method = "signInWithIdp"
         THEN << [Ret("handlePostSignInRedirect", "err") EXCEPT !.sid = call.sid] >>
         ELSE << [Ret("signInWithProvider", "err") EXCEPT !.provider = call.provider] >>

\* a request fails (response.ok is false, or the fetch rejects): request throws
RespondError(r) ==
    /\ r \in requests
    /\ NoMicrotask
    /\ IF r.method = "token"
       THEN /\ calls' = calls
            /\ IF requestThrows(FALSE)
               THEN /\ refreshTokenRequest' =
                          MarkerSettled(refreshTokenRequest, r, "rejected")
                    /\ notified' = <<>>
                    /\ moments' = <<>>
                    /\ UNCHANGED << user, storage, signedOut >>
               ELSE LET inst == persistUser(listeners, Instance(user, storage),
                                           RefreshedFromError(user))
                    IN /\ refreshTokenRequest' =
                             MarkerSettled(refreshTokenRequest, r, "fulfilled")
                       /\ storage' = inst.storage
                       /\ user' = inst.user
                       /\ notified' = inst.notified
                       /\ moments' = inst.moments
                       /\ signedOut' = (signedOut \/ inst.signedOut)
       ELSE \* the callers read fields the payload of an error does not have
            /\ refreshTokenRequest' = refreshTokenRequest
            /\ calls' = [calls EXCEPT ![r.owner] = Done(@)]
            /\ notified' = <<>>
            /\ moments' = <<>>
            /\ UNCHANGED << user, storage, signedOut >>
    /\ returned' = RequestFails(r, calls[r.owner])
    /\ requests' = requests \ {r}
    /\ UNCHANGED << now, sessionStorage, url, navigateTo, listeners, handles, issued,
                    sessions, passed, loads >>
    /\ heard' = HeardAfter(heard, notified', listeners')

\* the tab loads a page of the application: the old page's calls are gone and
\* the constructor runs on what the storages hold
PageLoad(u) ==
    /\ loads < MaxLoads
    /\ NoMicrotask
    /\ loads' = loads + 1
    /\ url' = u
    /\ navigateTo' = NoNavigation
    /\ listeners' = <<>>
    /\ handles' = {}
    /\ notified' = <<>>
    /\ moments' = <<>>
    /\ user' = Constructed(storage, now).user
    /\ calls' = Constructed(storage, now).calls
    /\ requests' = Constructed(storage, now).requests
    /\ refreshTokenRequest' = Constructed(storage, now).marker
    /\ returned' = Constructed(storage, now).returned
    /\ UNCHANGED << now, storage, sessionStorage, issued, sessions, passed, signedOut >>
    /\ heard' = HeardAfter(heard, notified', listeners')

Next ==
    \/ Tick
    \/ \E cb \in Callbacks : AddListener(cb)
    \/ \E cb \in Callbacks : Unsubscribe(cb)
    \/ SignOut
    \/ CallRefreshToken
    \/ \E options \in SignInOptions : SignInWithProvider(options)
    \/ HandlePostSignInRedirect
    \/ \E c \in Calls : Resume(c)
    \/ \E r \in requests, d \in Durations : RespondToken(r, d)
    \/ \E r \in requests : RespondLookup(r)
    \/ \E r \in requests, d \in Durations : RespondSignInWithIdp(r, d)
    \/ \E r \in requests : RespondCreateAuthUri(r)
    \/ \E r \in requests : RespondError(r)
    \/ \E u \in AppUrls : PageLoad(u)

Spec == Init /\ [][Next]_vars

(* ---------------- narrower environments of the same code --------------- *)
\* a visitor who is not signed in goes through the redirect flow
InitSignIn == Init /\ storage = AbsentItem

NextSignIn ==
    \/ \E options \in SignInOptions : SignInWithProvider(options)
    \/ HandlePostSignInRedirect
    \/ \E c \in Calls : Resume(c)
    \/ \E r \in requests : RespondLookup(r)
    \/ \E r \in requests, d \in Durations : RespondSignInWithIdp(r, d)
    \/ \E r \in requests : RespondCreateAuthUri(r)
    \/ \E r \in requests : RespondError(r)
    \/ \E u \in AppUrls : PageLoad(u)

SpecSignIn == InitSignIn /\ [][NextSignIn]_vars

\* pages that call handlePostSignInRedirect and listen, and start no sign-in
NextRedirect ==
    \/ \E cb \in Callbacks : AddListener(cb)
    \/ HandlePostSignInRedirect
    \/ \E c \in Calls : Resume(c)
    \/ \E r \in requests, d \in Durations : RespondToken(r, d)
    \/ \E r \in requests : RespondLookup(r)
    \/ \E r \in requests, d \in Durations : RespondSignInWithIdp(r, d)
    \/ \E r \in requests : RespondError(r)
    \/ \E u \in AppUrls : PageLoad(u)

SpecRedirect == Init /\ [][NextRedirect]_vars

\* an application that only uses the Credential: no sign-in is started
NextRefresh ==
    \/ Tick
    \/ \E cb \in Callbacks : AddListener(cb)
    \/ \E cb \in Callbacks : Unsubscribe(cb)
    \/ SignOut
    \/ CallRefreshToken
    \/ \E c \in Calls : Resume(c)
    \/ \E r \in requests, d \in Durations : RespondToken(r, d)
    \/ \E r \in requests : RespondLookup(r)
    \/ \E r \in requests : RespondError(r)
    \/ \E u \in AppUrls : PageLoad(u)

SpecRefresh == Init /\ [][NextRefresh]_vars

\* an application that only listens and signs out
NextListeners ==
    \/ \E cb \in Callbacks : AddListener(cb)
    \/ \E cb \in Callbacks : Unsubscribe(cb)
    \/ SignOut
    \/ \E c \in Calls : Resume(c)
    \/ \E r \in requests, d \in Durations : RespondToken(r, d)
    \/ \E r \in requests : RespondLookup(r)
    \/ \E r \in requests : RespondError(r)
    \/ \E u \in AppUrls : PageLoad(u)

SpecListeners == Init /\ [][NextListeners]_vars

\* an application whose listeners call back into the instance
NextNotify ==
    \/ \E cb \in Callbacks \cup ReentrantCallbacks : AddListener(cb)
    \/ SignOut
    \/ \E c \in Calls : Resume(c)
    \/ \E r \in requests, d \in Durations : RespondToken(r, d)
    \/ \E r \in requests : RespondLookup(r)
    \/ \E r \in requests : RespondError(r)
    \/ \E u \in AppUrls : PageLoad(u)

SpecNotify == Init /\ [][NextNotify]_vars

\* a page that handles the redirect while time passes
NextStale ==
    \/ Tick
    \/ HandlePostSignInRedirect
    \/ \E c \in Calls : Resume(c)
    \/ \E r \in requests, d \in Durations : RespondToken(r, d)
    \/ \E r \in requests : RespondLookup(r)
    \/ \E r \in requests, d \in Durations : RespondSignInWithIdp(r, d)
    \/ \E r \in requests : RespondError(r)
    \/ \E u \in AppUrls : PageLoad(u)

SpecStale == Init /\ [][NextStale]_vars

(* ------------------------------ properties ---------------------------- *)
TokenRequests == {r \in requests : r.method = "token"}

\* call c is made in this step by the application
CallMade(c) == calls[c].pc = "free" /\ calls'[c].pc # "free" /\ loads' = loads

\* the refreshToken() of call c runs its synchronous part in this step and finds
\* the token expired
FindsExpired(c) == ~calls[c].expired /\ calls'[c].expired

\* the keys of the configured provider mapping
ConfiguredProviders == {ConfigProviders[i].name : i \in DOMAIN ConfigProviders}

\* null, or a Credential with profile fields and tokenDetails
WhollyPresentOrAbsent(c) ==
    c = Null \/ ("localId" \in DOMAIN c /\ "tokenDetails" \in DOMAIN c)

\* the context the application passed to the call that was given session id sid
PassedContext(sid) == passed[CHOOSE i \in 1..Len(passed) : SessionId(i) = sid]

\* C1: overlapping refreshToken() calls that find the token expired cause exactly
\* one token request: after each such call exactly one refresh request is
\* outstanding, and never more than one is outstanding.
C1_ExactlyOneRefreshRequest ==
    [][ /\ Cardinality(TokenRequests') <= 1
        /\ (\E c \in Calls : FindsExpired(c)) => Cardinality(TokenRequests') = 1 ]_vars

\* C2: a refreshToken() call that found the token expired returns only after the
\* response of the refresh request has been applied to the Credential.
C2_ReturnsAfterResponseApplied ==
    \A i \in DOMAIN returned :
        (returned[i].fn = "refreshToken" /\ returned[i].expired
            /\ returned[i].result = "ok")
        => (refreshTokenRequest.status = "fulfilled" /\ TokenRequests = {})

\* C3: after signOut() and until a handlePostSignInRedirect() succeeds, the
\* durable record is absent, the Credential in memory is null, and a fresh
\* construction finds no Credential and answers a new subscriber with null.
C3_SignedOutStaysSignedOut ==
    signedOut =>
        /\ storage = AbsentItem
        /\ user = Null
        /\ Constructed(storage, now).user = Null
        /\ addListenerCalls("f", Constructed(storage, now).user, <<>>)
              = << [callback |-> "f", value |-> Null] >>

\* C4: what is held in memory, written to durable storage or delivered to a
\* listener is null or a complete Credential (profile and tokenDetails).
C4_NeverPartial ==
    /\ WhollyPresentOrAbsent(user)
    /\ WhollyPresentOrAbsent(JsonParse(storage))
    /\ \A i \in DOMAIN notified : WhollyPresentOrAbsent(notified[i].value)

\* C5: handlePostSignInRedirect() on a URL without the authorization-code marker
\* resolves with undefined at once and changes nothing: no request, no change of
\* Credential, storages or URL, no listener called.
C5_NoMarkerNoEffect ==
    [][ \A c \in Calls :
          ( /\ CallMade(c)
            /\ \/ calls'[c].kind = "handlePostSignInRedirect"
               \/ (returned' # <<>> /\ returned'[1].fn = "handlePostSignInRedirect")
            /\ ~HasCodeMarker(url) )
          => /\ returned' = << Ret("handlePostSignInRedirect", "ok") >>
             /\ calls'[c].pc = "done"
             /\ requests' = requests
             /\ notified' = <<>>
             /\ UNCHANGED << user, storage, sessionStorage, url, navigateTo, listeners,
                             refreshTokenRequest >> ]_vars

C5_Witness ==
    /\ returned = << Ret("handlePostSignInRedirect", "ok") >>
    /\ ~HasCodeMarker(url)
    /\ user # Null
    /\ listeners # <<>>
    /\ \A c \in Calls : calls[c].pc = "done"

\* C6: the context passed to signInWithProvider is sent with the createAuthUri
\* request, and a handlePostSignInRedirect() that succeeds for a session the
\* service opened resolves with the context passed for that session.
C6_ContextRoundTrip ==
    /\ \A r \in requests :
          r.method = "createAuthUri"
          => Field(r.body, "context") = calls[r.owner].context
    /\ \A i \in DOMAIN returned :
          (returned[i].fn = "handlePostSignInRedirect" /\ returned[i].result = "ok"
              /\ KnownSession(returned[i].sid))
          => returned[i].value = PassedContext(returned[i].sid)

C6_Witness ==
    \E i \in DOMAIN returned :
        /\ returned[i].fn = "handlePostSignInRedirect"
        /\ returned[i].result = "ok"
        /\ KnownSession(returned[i].sid)
        /\ returned[i].value = "ctxB"
        /\ Len(passed) = 2 /\ passed[1] = "ctxA"

\* C7: signInWithProvider with a provider that is no key of the configured
\* mapping rejects in the step of the call, with no request sent, no session
\* id stored and no redirect; no createAuthUri request names such a provider.
C7_UnknownProviderRejects ==
    [][ /\ \A r \in requests' :
              r.method = "createAuthUri" => r.body.providerId \in ConfiguredProviders
        /\ \A i \in DOMAIN returned' :
              (returned'[i].fn = "signInWithProvider"
                  /\ returned'[i].provider \notin ConfiguredProviders)
              => /\ returned'[i].result = "err"
                 /\ requests' = requests
                 /\ sessionStorage' = sessionStorage
                 /\ navigateTo' = navigateTo ]_vars

C7_Witness ==
    /\ returned = << [Ret("signInWithProvider", "err") EXCEPT !.provider = "unknown.com"] >>
    /\ requests # {}

\* C8: handlePostSignInRedirect() on a URL with the marker, with no session id in
\* ephemeral storage, rejects and persists no Credential.
C8_NoSessionRejects ==
    \A i \in DOMAIN returned :
        (returned[i].fn = "handlePostSignInRedirect" /\ returned[i].sid = NullString)
        => returned[i].result = "err"

\* C9: when the refresh request fails, every call coalesced on it rejects, the
\* call that started it included: none has returned as if the token were fresh.
C9_FailureReachesEveryCaller ==
    refreshTokenRequest.status = "rejected" =>
        /\ \A c \in Calls : calls[c].expired => calls[c].rt # "returned"
        /\ \A i \in DOMAIN returned :
              (returned[i].fn = "refreshToken" /\ returned[i].expired)
              => returned[i].result = "err"

\* C10: addListener(callback) while no Credential exists calls that callback with
\* null exactly once and calls no other registered callback.
C10_SubscribeAbsentSignal ==
    [][ \A cb \in Callbacks :
          (listeners' = Append(listeners, cb) /\ user = Null)
          => notified' = << [callback |-> cb, value |-> Null] >> ]_vars

C10_Witness ==
    /\ user = Null
    /\ listeners = << "f", "g" >>
    /\ notified = << [callback |-> "g", value |-> Null] >>

\* C11: calling the handle addListener returned removes exactly the registration
\* it was returned for: at most one registration goes, and the registrations of
\* every other function stay as they are.
C11_HandleRemovesOneRegistration ==
    [][ (loads' = loads /\ Len(listeners') < Len(listeners))
        => \E i \in 1..Len(listeners) :
              listeners' = SubSeq(listeners, 1, i - 1)
                             \o SubSeq(listeners, i + 1, Len(listeners)) ]_vars

\* the requests of the code exchange in flight
ExchangeRequests == {r \in requests : r.method = "signInWithIdp"}

\* the last session the Identity Service opened
LastSession == SessionId(Len(sessions))

\* C12: signInWithProvider redirects only to the authUri of the createAuthUri
\* response, and the session id of that response is in ephemeral storage when it
\* does; when the request fails, the session id and the location are untouched.
C12_RedirectAfterSessionStored ==
    [][ /\ (navigateTo' # navigateTo /\ loads' = loads)
              => /\ Len(sessions') = Len(sessions) + 1
                 /\ navigateTo' = [origin |-> "idp", session |-> LastSession']
                 /\ sessionStorage' = Item(LastSession')
                 /\ returned' # <<>>
                 /\ returned'[1].fn = "signInWithProvider"
                 /\ returned'[1].result = "ok"
                 /\ returned'[1].provider \in ConfiguredProviders
        /\ (sessionStorage' # sessionStorage) => (navigateTo' # navigateTo)
        /\ \A i \in DOMAIN returned' :
              (returned'[i].fn = "signInWithProvider" /\ returned'[i].result = "err")
              => UNCHANGED << sessionStorage, navigateTo, sessions >> ]_vars

C12_Witness ==
    /\ navigateTo = [origin |-> "idp", session |-> "s2"]
    /\ sessionStorage = Item("s2")
    /\ returned # <<>>
    /\ returned[1].fn = "signInWithProvider"
    /\ returned[1].result = "ok"

\* handlePostSignInRedirect settled in the last step after it had sent a code
\* exchange: the call read the session item, which is never undefined
ResolvedAfterExchange(ev) ==
    ev.fn = "handlePostSignInRedirect" /\ ev.result = "ok" /\ ev.sid # Undefined

\* C13: when handlePostSignInRedirect() resolves after a code exchange, the
\* Credential of the looked-up profile is in memory and in durable storage and
\* the URL has no authorization-code marker; from a URL without the marker no
\* call on that page sends a code exchange.
C13_ResolvedMeansPersistedAndStripped ==
    [][ /\ \A i \in DOMAIN returned' :
              ResolvedAfterExchange(returned'[i])
              => /\ ~HasCodeMarker(url')
                 /\ user' # Null
                 /\ JsonParse(storage') = user'
                 /\ Field(user', "localId") = LookupProfile
                 /\ "tokenDetails" \in DOMAIN user'
        /\ (~HasCodeMarker(url) /\ loads' = loads)
              => /\ ~HasCodeMarker(url')
                 /\ ExchangeRequests' \subseteq ExchangeRequests ]_vars

C13_Witness ==
    /\ \E i \in DOMAIN returned : ResolvedAfterExchange(returned[i])
    /\ url = << "/cb" >>
    /\ user # Null
    /\ \E c \in Calls : calls[c].pc = "free"

\* the callbacks run r of triggerCallbacks invoked, in the order of the calls
RunOf(n, m, r) ==
    LET idx == SelectSeq([i \in 1..Len(n) |-> i], LAMBDA i : m[i].run = r)
    IN [j \in 1..Len(idx) |-> n[idx[j]].callback]

\* C14: every run of triggerCallbacks calls the registered callbacks in
\* subscription order, and each callback is handed the Credential that is the
\* durable record at the moment of its call (null after sign-out), also when a
\* callback calls persistUser or signOut during the run.
C14_NotifiedWithCurrentValue ==
    [][ /\ Len(moments') = Len(notified')
        /\ \A i \in DOMAIN notified' :
              /\ notified'[i].value = moments'[i].persisted
              /\ moments'[i].run >= 1
                   => RunOf(notified', moments', moments'[i].run) = listeners' ]_vars

C14_Witness ==
    /\ Len(listeners) = 2
    /\ \E i, j \in DOMAIN notified :
          /\ j < i
          /\ moments[j].run = 2
          /\ moments[i].run = 1
          /\ notified[1].value # Null
          /\ notified[i].value = Null

\* a lookup request of a fetchUserDetails() that was given no tokenDetails and
\* found the stored token expired
LookupAfterExpiry(r, cs) ==
    r.method = "lookup" /\ cs[r.owner].td = Null /\ cs[r.owner].expired

\* C15: fetchUserDetails() without tokenDetails on an expired token sends the
\* lookup only when the refresh of that token is over, so not with the id token the
\* refresh request in flight is replacing; and the tokenDetails of the Credential
\* it persists carry the id token the lookup was sent with.
C15_LookupAfterRefresh ==
    [][ /\ \A r \in requests' :
              LookupAfterExpiry(r, calls')
              => \A t \in TokenRequests' : t.body.refresh_token # r.body.idToken
        /\ \A r \in requests \ requests' :
              ( /\ LookupAfterExpiry(r, calls)
                /\ \E i \in DOMAIN returned' :
                      returned'[i].fn = "fetchUserDetails" /\ returned'[i].result = "ok" )
              => user'.tokenDetails.idToken = r.body.idToken ]_vars

\* C16: this.refreshTokenRequest is set only while a refresh request is
\* outstanding, and a refreshToken() that finds the token expired when none is
\* outstanding sends a new one.
C16_MarkerOnlyWhileOutstanding ==
    [][ /\ InFlight(refreshTokenRequest') => TokenRequests' # {}
        /\ (loads' = loads /\ TokenRequests = {} /\ \E c \in Calls : FindsExpired(c))
              => TokenRequests' # {} ]_vars

\* request r is answered in this step and the answer is a failure: no tokens are
\* issued for it and no fetchUserDetails() completes with it
FailedAnswer(r) ==
    /\ r \in requests /\ r \notin requests' /\ loads' = loads
    /\ r.method \in {"token", "signInWithIdp", "lookup"}
    /\ issued' = issued
    /\ \A i \in DOMAIN returned' :
          ~(returned'[i].fn = "fetchUserDetails" /\ returned'[i].result = "ok")

\* C17: a step in which a request of handlePostSignInRedirect, of the profile
\* fetch or of the token refresh fails, or in which a call rejects, leaves the
\* Credential in memory and the durable record as they were, calls no listener
\* and signs nobody out.
C17_FailureChangesNothing ==
    [][ ( \/ \E r \in requests : FailedAnswer(r)
          \/ \E i \in DOMAIN returned' : returned'[i].result = "err" )
        => /\ user' = user
           /\ storage' = storage
           /\ notified' = <<>>
           /\ signedOut' = signedOut ]_vars

C17_Witness ==
    /\ user # Null
    /\ JsonParse(storage) = user
    /\ listeners # <<>>
    /\ refreshTokenRequest.status = "rejected"
    /\ \E i \in DOMAIN returned :
          returned[i].fn = "handlePostSignInRedirect" /\ returned[i].result = "err"

\* nothing is pending on the page: no request is in flight and no call is
\* suspended, so only a new call of the application can make anything happen
Quiescent ==
    /\ requests = {}
    /\ \A c \in Calls : calls[c].pc \in {"free", "done"}

\* C18: every callback registered with addListener receives a notification: once
\* nothing is pending any more, each registered callback has been called at least
\* once since it registered.
C18_EveryListenerNotified ==
    Quiescent => \A i \in DOMAIN listeners : listeners[i] \in heard

\* C19: the Credential in memory equals the record in durable storage: both
\* absent, or the same value.
C19_MemoryEqualsDurable ==
    /\ user = JsonParse(storage)
    /\ (user = Null) = (storage = AbsentItem)

C19_Witness ==
    /\ loads = 1
    /\ user # Null
    /\ Field(user, "localId") = LookupProfile
    /\ user = JsonParse(storage)
    /\ listeners # <<>>

\* C20: the answer to a refresh request that was sent with the refresh token of
\* an earlier Credential does not replace the tokenDetails of the Credential a
\* code exchange has established since.
C20_StaleRefreshKeepsTokens ==
    [][ \A r \in requests \ requests' :
          ( /\ r.method = "token"
            /\ loads' = loads
            /\ HasTokenDetails(user)
            /\ user.tokenDetails.refreshToken # r.body.refresh_token )
          => (HasTokenDetails(user') /\ user'.tokenDetails = user.tokenDetails) ]_vars

====
